---- MODULE Spec2Model ----
(***************************************************************************)
(* Model of the flatmap crate: the growable FlatMap / FlatSet (a Vec       *)
(* scanned linearly) and the fixed-size ConstantFlatMap / ConstantFlatSet  *)
(* (an array of N slots).  One container instance is built by one of the   *)
(* constructors and then driven through its methods.                       *)
(*                                                                         *)
(* Rust values: Option<V> is a sequence of length 0 (None) or 1 (Some),    *)
(* a FlatMapEntry is a record [key, value], a plain pair (K, V) is a       *)
(* tuple <<k, v>>, a Vec / array is a sequence (Rust index i is TLA+       *)
(* index i + 1), Result<Self, (usize, usize)> is a record with field ok.   *)
(***************************************************************************)
EXTENDS Integers, Sequences, FiniteSets, TLC

\* ---------------------------------------------------------------- bounds
\* NumKeys, NumVals: size of the key and value types; MaxLen: length of a
\* checked constructor's input and cap on a growable container's length;
\* MaxUnchecked: length of an unchecked constructor's input; MaxN: largest
\* array length N of the fixed-size containers
NumKeys == 3
NumVals == 2
MaxLen == 3
MaxUnchecked == 2
MaxN == 3

Keys == 1..NumKeys
Values == 1..NumVals

None == <<>>
Some(v) == <<v>>

\* ------------------------------------------------------------ FlatMapEntry
FlatMapEntry_new(key, value) == [key |-> key, value |-> value]

FlatMapEntry_from(pair) == FlatMapEntry_new(pair[1], pair[2])

FlatMapEntry_into(entry) == <<entry.key, entry.value>>

\* a write of v through the &mut V that value_mut returns
FlatMapEntry_value_mut(entry, v) == [entry EXCEPT !.value = v]

Entries == {FlatMapEntry_new(k, v) : k \in Keys, v \in Values}
Pairs == Keys \X Values

SeqsUpTo(S, n) == UNION {[1..m -> S] : m \in 0..n}

\* Vec::swap_remove(i) on a vector: the last element takes slot i, then pop.
\* i is a TLA+ (1-based) index.
VecRemoveKeepOrder(vec, i) ==
    [j \in 1..(Len(vec) - 1) |-> IF j < i THEN vec[j] ELSE vec[j + 1]]

VecPopOnly(vec, i) == SubSeq(vec, 1, Len(vec) - 1)

swap_remove(vec, i) ==
    [j \in 1..(Len(vec) - 1) |-> IF j = i THEN vec[Len(vec)] ELSE vec[j]]

\* ----------------------------------------------------------------- FlatMap
FlatMap_with_capacity(capacity) == <<>>

FlatMap_new == FlatMap_with_capacity(0)

RECURSIVE FlatMap_get_loop(_, _, _)
FlatMap_get_loop(inner, k, i) ==
    IF i > Len(inner) THEN None
    ELSE IF inner[i].key = k THEN Some(inner[i].value)
    ELSE FlatMap_get_loop(inner, k, i + 1)

FlatMap_get(inner, k) == FlatMap_get_loop(inner, k, 1)

RECURSIVE FlatMap_insert_loop(_, _, _, _)
FlatMap_insert_loop(inner, k, v, i) ==
    IF i > Len(inner)
    THEN [inner |-> Append(inner, FlatMapEntry_new(k, v)), ret |-> None]
    ELSE IF inner[i].key = k
    THEN [inner |-> [inner EXCEPT ![i].value = v], ret |-> Some(inner[i].value)]
    ELSE FlatMap_insert_loop(inner, k, v, i + 1)

FlatMap_insert_move_to_end(inner, k, v) ==
    LET r == FlatMap_insert_loop(inner, k, v, 1) IN
    IF r.ret = None THEN r
    ELSE LET p == CHOOSE i \in 1..Len(inner) :
                      inner[i].key = k /\ \A h \in 1..(i - 1) : inner[h].key # k
         IN [inner |-> Append(VecRemoveKeepOrder(inner, p), FlatMapEntry_new(k, v)),
             ret |-> r.ret]

FlatMap_insert_overwrite_only(inner, k, v) ==
    LET r == FlatMap_insert_loop(inner, k, v, 1) IN
    IF r.ret = None THEN [inner |-> inner, ret |-> None] ELSE r

FlatMap_insert_overwrite_last(inner, k, v) ==
    IF \A i \in 1..Len(inner) : inner[i].key # k
    THEN [inner |-> Append(inner, FlatMapEntry_new(k, v)), ret |-> None]
    ELSE LET q == CHOOSE i \in 1..Len(inner) :
                      /\ inner[i].key = k
                      /\ \A h \in (i + 1)..Len(inner) : inner[h].key # k
         IN [inner |-> [inner EXCEPT ![q].value = v], ret |-> Some(inner[q].value)]

FlatMap_insert_push(inner, k, v) ==
    [inner |-> Append(inner, FlatMapEntry_new(k, v)), ret |-> None]

FlatMap_insert(inner, k, v) == FlatMap_insert_loop(inner, k, v, 1)

RECURSIVE FlatMap_delete_loop(_, _, _)
FlatMap_delete_loop(inner, k, i) ==
    IF i > Len(inner) THEN [inner |-> inner, ret |-> None]
    ELSE IF inner[i].key = k
    THEN [inner |-> swap_remove(inner, i), ret |-> Some(inner[i].value)]
    ELSE FlatMap_delete_loop(inner, k, i + 1)

FlatMap_delete_pop_if_absent(inner, k) ==
    LET r == FlatMap_delete_loop(inner, k, 1) IN
    IF r.ret = None /\ Len(inner) > 0
    THEN [inner |-> SubSeq(inner, 1, Len(inner) - 1), ret |-> None]
    ELSE r

FlatMap_delete(inner, k) == FlatMap_delete_loop(inner, k, 1)

RECURSIVE FlatMap_from_entries_loop(_, _, _)
FlatMap_from_entries_loop(s, iter, i) ==
    IF i > Len(iter) THEN s
    ELSE FlatMap_from_entries_loop(
             FlatMap_insert(s, iter[i].key, iter[i].value).inner, iter, i + 1)

FlatMap_from_entries_first_wins(iter) ==
    LET RECURSIVE go(_, _)
        go(s, i) ==
            IF i > Len(iter) THEN s
            ELSE IF FlatMap_get(s, iter[i].key) # None THEN go(s, i + 1)
            ELSE go(Append(s, iter[i]), i + 1)
    IN go(<<>>, 1)

FlatMap_from_entries(iter) ==
    FlatMap_from_entries_loop(FlatMap_with_capacity(Len(iter)), iter, 1)

FlatMap_from_entries_unchecked(iter) == iter

FlatMap_from(value) ==
    FlatMap_from_entries([i \in 1..Len(value) |-> FlatMapEntry_from(value[i])])

FlatMap_iter(inner) == inner

\* iter_mut yields one `&mut FlatMapEntry<K, V>` per slot: the slots a caller
\* may write through
FlatMap_iter_mut(inner) == 1..Len(inner)

\* ----------------------------------------------------------------- FlatSet
FlatSet_with_capacity(capacity) == <<>>

FlatSet_new == FlatSet_with_capacity(0)

RECURSIVE FlatSet_has_loop(_, _, _)
FlatSet_has_loop(inner, key, i) ==
    IF i > Len(inner) THEN FALSE
    ELSE IF inner[i] = key THEN TRUE
    ELSE FlatSet_has_loop(inner, key, i + 1)

FlatSet_has(inner, key) == FlatSet_has_loop(inner, key, 1)

FlatSet_insert_inverted(inner, key) ==
    IF FlatSet_has(inner, key) THEN [inner |-> inner, ret |-> FALSE]
    ELSE [inner |-> Append(inner, key), ret |-> TRUE]

FlatSet_insert(inner, key) ==
    IF FlatSet_has(inner, key) THEN [inner |-> inner, ret |-> TRUE]
    ELSE [inner |-> Append(inner, key), ret |-> FALSE]

RECURSIVE FlatSet_delete_loop(_, _, _)
FlatSet_delete_loop(inner, key, i) ==
    IF i > Len(inner) THEN [inner |-> inner, ret |-> FALSE]
    ELSE IF inner[i] = key
    THEN [inner |-> swap_remove(inner, i), ret |-> TRUE]
    ELSE FlatSet_delete_loop(inner, key, i + 1)

FlatSet_delete(inner, key) == FlatSet_delete_loop(inner, key, 1)

RECURSIVE FlatSet_from_iter_loop(_, _, _)
FlatSet_from_iter_loop(s, iter, i) ==
    IF i > Len(iter) THEN s
    ELSE FlatSet_from_iter_loop(FlatSet_insert(s, iter[i]).inner, iter, i + 1)

FlatSet_from_iter_last_kept(iter) ==
    LET RECURSIVE go(_, _)
        go(s, i) ==
            IF i > Len(iter) THEN s
            ELSE IF FlatSet_has(s, iter[i])
            THEN go(Append(FlatSet_delete(s, iter[i]).inner, iter[i]), i + 1)
            ELSE go(Append(s, iter[i]), i + 1)
    IN go(<<>>, 1)

FlatSet_from_iter(iter) ==
    FlatSet_from_iter_loop(FlatSet_with_capacity(Len(iter)), iter, 1)

FlatSet_from_iter_unchecked(iter) == iter

FlatSet_from(value) == FlatSet_from_iter(value)

FlatSet_iter(inner) == inner

\* --------------------------------------------- ConstantFlatMap / ConstantFlatSet
Ok(inner) == [ok |-> TRUE, inner |-> inner, err |-> <<>>]
Err(i, j) == [ok |-> FALSE, inner |-> <<>>, err |-> <<i, j>>]

ConstantFlatMap_from_array(entries) == entries

ConstantFlatMap_from_pairs(entries) ==
    [i \in 1..Len(entries) |-> FlatMapEntry_from(entries[i])]

ConstantFlatMap_from_entries_unchecked(entries) == entries

\* the nested loops `for i in 0..N { for j in (i + 1)..N {..} }`; i and j
\* are Rust (0-based) indices
RECURSIVE ConstantFlatMap_from_entries_loop(_, _, _)
ConstantFlatMap_from_entries_loop(entries, i, j) ==
    IF i >= Len(entries) THEN Ok(ConstantFlatMap_from_entries_unchecked(entries))
    ELSE IF j >= Len(entries)
    THEN ConstantFlatMap_from_entries_loop(entries, i + 1, i + 2)
    ELSE IF entries[i + 1].key = entries[j + 1].key THEN Err(i, j)
    ELSE ConstantFlatMap_from_entries_loop(entries, i, j + 1)

ConstantFlatMap_from_entries_adjacent(entries) ==
    IF \E i \in 0..(Len(entries) - 2) : entries[i + 1].key = entries[i + 2].key
    THEN LET first == CHOOSE c \in 0..(Len(entries) - 2) :
                    /\ entries[c + 1].key = entries[c + 2].key
                    /\ \A h \in 0..(c - 1) : entries[h + 1].key # entries[h + 2].key
         IN Err(first, first + 1)
    ELSE Ok(entries)

ConstantFlatMap_from_entries(entries) ==
    ConstantFlatMap_from_entries_loop(entries, 0, 1)

RECURSIVE ConstantFlatMap_get_loop(_, _, _)
ConstantFlatMap_get_loop(inner, key, i) ==
    IF i > Len(inner) THEN None
    ELSE IF inner[i].key = key THEN Some(inner[i].value)
    ELSE ConstantFlatMap_get_loop(inner, key, i + 1)

ConstantFlatMap_get(inner, key) == ConstantFlatMap_get_loop(inner, key, 1)

ConstantFlatMap_iter(inner) == inner

ConstantFlatMap_iter_mut(inner) == 1..Len(inner)

ConstantFlatSet_from_entries_unchecked(entries) == entries

RECURSIVE ConstantFlatSet_from_entries_loop(_, _, _)
ConstantFlatSet_from_entries_loop(entries, i, j) ==
    IF i >= Len(entries) THEN Ok(ConstantFlatSet_from_entries_unchecked(entries))
    ELSE IF j >= Len(entries)
    THEN ConstantFlatSet_from_entries_loop(entries, i + 1, i + 2)
    ELSE IF entries[i + 1] = entries[j + 1] THEN Err(i, j)
    ELSE ConstantFlatSet_from_entries_loop(entries, i, j + 1)

ConstantFlatSet_from_entries(entries) ==
    ConstantFlatSet_from_entries_loop(entries, 0, 1)

RECURSIVE ConstantFlatSet_has_loop(_, _, _)
ConstantFlatSet_has_loop(inner, key, i) ==
    IF i > Len(inner) THEN FALSE
    ELSE IF inner[i] = key THEN TRUE
    ELSE ConstantFlatSet_has_loop(inner, key, i + 1)

ConstantFlatSet_has(inner, key) == ConstantFlatSet_has_loop(inner, key, 1)

ConstantFlatSet_iter(inner) == inner

\* ------------------------------------------------------------ state machine
\* live:   which container type the instance is ("none" before construction,
\*         "Err" when a checked fixed-size constructor refused the input)
\* unchecked: whether an unchecked constructor built it
\* map, set, cmap, cset: the `inner` field of the FlatMap, FlatSet,
\*         ConstantFlatMap, ConstantFlatSet instance
\* last:   the last call: its name, arguments, return value, the `inner`
\*         it was applied to (pre) and, for constructors, the input sequence
\* ref, firsts, deleted: used by the lockstep run only (see SpecLockstep):
\*         a reference partial function from keys to values, the keys in
\*         the order of their first insertion, and whether delete was called
VARIABLES live, unchecked, map, set, cmap, cset, last, ref, firsts, deleted

vars == <<live, unchecked, map, set, cmap, cset, last, ref, firsts, deleted>>

\* the variables only the lockstep run below uses
lockstepVars == <<ref, firsts, deleted>>

Call(op, k, v, ret, pre, input) ==
    [op |-> op, k |-> k, v |-> v, ret |-> ret, pre |-> pre, input |-> input]

Init ==
    /\ live = "none"
    /\ unchecked = FALSE
    /\ map = <<>>
    /\ set = <<>>
    /\ cmap = <<>>
    /\ cset = <<>>
    /\ last = Call("none", 0, 0, None, <<>>, <<>>)
    /\ ref = <<>>
    /\ firsts = <<>>
    /\ deleted = FALSE

\* ---- FlatMap constructors
NewFlatMap ==
    /\ live = "none"
    /\ live' = "FlatMap"
    /\ unchecked' = FALSE
    /\ map' = FlatMap_new
    /\ last' = Call("FlatMap::new", 0, 0, None, <<>>, <<>>)
    /\ UNCHANGED <<set, cmap, cset>>
    /\ UNCHANGED lockstepVars

WithCapacityFlatMap ==
    /\ live = "none"
    /\ live' = "FlatMap"
    /\ unchecked' = FALSE
    /\ \E capacity \in 0..MaxLen :
           /\ map' = FlatMap_with_capacity(capacity)
           /\ last' = Call("FlatMap::with_capacity", 0, 0, None, <<>>, <<>>)
    /\ UNCHANGED <<set, cmap, cset>>
    /\ UNCHANGED lockstepVars

FromEntriesFlatMap ==
    /\ live = "none"
    /\ live' = "FlatMap"
    /\ unchecked' = FALSE
    /\ \E iter \in SeqsUpTo(Entries, MaxLen) :
           /\ map' = FlatMap_from_entries(iter)
           /\ last' = Call("FlatMap::from_entries", 0, 0, None, <<>>, iter)
    /\ UNCHANGED <<set, cmap, cset>>
    /\ UNCHANGED lockstepVars

FromEntriesUncheckedFlatMap ==
    /\ live = "none"
    /\ live' = "FlatMap"
    /\ unchecked' = TRUE
    /\ \E iter \in SeqsUpTo(Entries, MaxUnchecked) :
           /\ map' = FlatMap_from_entries_unchecked(iter)
           /\ last' = Call("FlatMap::from_entries_unchecked", 0, 0, None, <<>>, iter)
    /\ UNCHANGED <<set, cmap, cset>>
    /\ UNCHANGED lockstepVars

FromFlatMap ==
    /\ live = "none"
    /\ live' = "FlatMap"
    /\ unchecked' = FALSE
    /\ \E value \in SeqsUpTo(Pairs, MaxLen) :
           /\ map' = FlatMap_from(value)
           /\ last' = Call("FlatMap::from", 0, 0, None, <<>>, value)
    /\ UNCHANGED <<set, cmap, cset>>
    /\ UNCHANGED lockstepVars

\* ---- FlatMap methods
GetFlatMap ==
    /\ live = "FlatMap"
    /\ \E k \in Keys :
           last' = Call("FlatMap::get", k, 0, FlatMap_get(map, k), map, <<>>)
    /\ UNCHANGED <<live, unchecked, map, set, cmap, cset>>
    /\ UNCHANGED lockstepVars

InsertFlatMap ==
    /\ live = "FlatMap"
    /\ \E k \in Keys, v \in Values :
           /\ Len(map) < MaxLen \/ FlatMap_get(map, k) # None
           /\ map' = FlatMap_insert(map, k, v).inner
           /\ last' = Call("FlatMap::insert", k, v,
                           FlatMap_insert(map, k, v).ret, map, <<>>)
    /\ UNCHANGED <<live, unchecked, set, cmap, cset>>
    /\ UNCHANGED lockstepVars

DeleteFlatMap ==
    /\ live = "FlatMap"
    /\ \E k \in Keys :
           /\ map' = FlatMap_delete(map, k).inner
           /\ last' = Call("FlatMap::delete", k, 0,
                           FlatMap_delete(map, k).ret, map, <<>>)
    /\ UNCHANGED <<live, unchecked, set, cmap, cset>>
    /\ UNCHANGED lockstepVars

\* ---- FlatSet constructors
NewFlatSet ==
    /\ live = "none"
    /\ live' = "FlatSet"
    /\ unchecked' = FALSE
    /\ set' = FlatSet_new
    /\ last' = Call("FlatSet::new", 0, 0, None, <<>>, <<>>)
    /\ UNCHANGED <<map, cmap, cset>>
    /\ UNCHANGED lockstepVars

WithCapacityFlatSet ==
    /\ live = "none"
    /\ live' = "FlatSet"
    /\ unchecked' = FALSE
    /\ \E capacity \in 0..MaxLen :
           /\ set' = FlatSet_with_capacity(capacity)
           /\ last' = Call("FlatSet::with_capacity", 0, 0, None, <<>>, <<>>)
    /\ UNCHANGED <<map, cmap, cset>>
    /\ UNCHANGED lockstepVars

FromIterFlatSet ==
    /\ live = "none"
    /\ live' = "FlatSet"
    /\ unchecked' = FALSE
    /\ \E iter \in SeqsUpTo(Keys, MaxLen) :
           /\ set' = FlatSet_from_iter(iter)
           /\ last' = Call("FlatSet::from_iter", 0, 0, None, <<>>, iter)
    /\ UNCHANGED <<map, cmap, cset>>
    /\ UNCHANGED lockstepVars

FromIterUncheckedFlatSet ==
    /\ live = "none"
    /\ live' = "FlatSet"
    /\ unchecked' = TRUE
    /\ \E iter \in SeqsUpTo(Keys, MaxUnchecked) :
           /\ set' = FlatSet_from_iter_unchecked(iter)
           /\ last' = Call("FlatSet::from_iter_unchecked", 0, 0, None, <<>>, iter)
    /\ UNCHANGED <<map, cmap, cset>>
    /\ UNCHANGED lockstepVars

FromFlatSet ==
    /\ live = "none"
    /\ live' = "FlatSet"
    /\ unchecked' = FALSE
    /\ \E value \in SeqsUpTo(Keys, MaxLen) :
           /\ set' = FlatSet_from(value)
           /\ last' = Call("FlatSet::from", 0, 0, None, <<>>, value)
    /\ UNCHANGED <<map, cmap, cset>>
    /\ UNCHANGED lockstepVars

\* ---- FlatSet methods
HasFlatSet ==
    /\ live = "FlatSet"
    /\ \E key \in Keys :
           last' = Call("FlatSet::has", key, 0, FlatSet_has(set, key), set, <<>>)
    /\ UNCHANGED <<live, unchecked, map, set, cmap, cset>>
    /\ UNCHANGED lockstepVars

InsertFlatSet ==
    /\ live = "FlatSet"
    /\ \E key \in Keys :
           /\ Len(set) < MaxLen \/ FlatSet_has(set, key)
           /\ set' = FlatSet_insert(set, key).inner
           /\ last' = Call("FlatSet::insert", key, 0,
                           FlatSet_insert(set, key).ret, set, <<>>)
    /\ UNCHANGED <<live, unchecked, map, cmap, cset>>
    /\ UNCHANGED lockstepVars

DeleteFlatSet ==
    /\ live = "FlatSet"
    /\ \E key \in Keys :
           /\ set' = FlatSet_delete(set, key).inner
           /\ last' = Call("FlatSet::delete", key, 0,
                           FlatSet_delete(set, key).ret, set, <<>>)
    /\ UNCHANGED <<live, unchecked, map, cmap, cset>>
    /\ UNCHANGED lockstepVars

\* ---- ConstantFlatMap constructors; N is the array length
FromArrayConstantFlatMap ==
    /\ live = "none"
    /\ live' = "ConstantFlatMap"
    /\ unchecked' = FALSE
    /\ \E N \in 0..MaxN : \E entries \in [1..N -> Entries] :
           /\ cmap' = ConstantFlatMap_from_array(entries)
           /\ last' = Call("ConstantFlatMap::from<[FlatMapEntry; N]>", 0, 0, None, <<>>, entries)
    /\ UNCHANGED <<map, set, cset>>
    /\ UNCHANGED lockstepVars

FromPairsConstantFlatMap ==
    /\ live = "none"
    /\ live' = "ConstantFlatMap"
    /\ unchecked' = FALSE
    /\ \E N \in 0..MaxN : \E entries \in [1..N -> Pairs] :
           /\ cmap' = ConstantFlatMap_from_pairs(entries)
           /\ last' = Call("ConstantFlatMap::from<[(K, V); N]>", 0, 0, None, <<>>, entries)
    /\ UNCHANGED <<map, set, cset>>
    /\ UNCHANGED lockstepVars

FromEntriesUncheckedConstantFlatMap ==
    /\ live = "none"
    /\ live' = "ConstantFlatMap"
    /\ unchecked' = TRUE
    /\ \E N \in 0..MaxN : \E entries \in [1..N -> Entries] :
           /\ cmap' = ConstantFlatMap_from_entries_unchecked(entries)
           /\ last' = Call("ConstantFlatMap::from_entries_unchecked", 0, 0, None, <<>>, entries)
    /\ UNCHANGED <<map, set, cset>>
    /\ UNCHANGED lockstepVars

\* Err constructs nothing: no instance exists afterwards (live = "Err"), the
\* result is in last
FromEntriesConstantFlatMap ==
    /\ live = "none"
    /\ \E N \in 0..MaxN : \E entries \in [1..N -> Entries] :
           LET res == ConstantFlatMap_from_entries(entries) IN
           /\ live' = IF res.ok THEN "ConstantFlatMap" ELSE "Err"
           /\ unchecked' = FALSE
           /\ cmap' = res.inner
           /\ last' = Call("ConstantFlatMap::from_entries", 0, 0, res, <<>>, entries)
    /\ UNCHANGED <<map, set, cset>>
    /\ UNCHANGED lockstepVars

\* ---- ConstantFlatSet constructors
FromEntriesUncheckedConstantFlatSet ==
    /\ live = "none"
    /\ live' = "ConstantFlatSet"
    /\ unchecked' = TRUE
    /\ \E N \in 0..MaxN : \E entries \in [1..N -> Keys] :
           /\ cset' = ConstantFlatSet_from_entries_unchecked(entries)
           /\ last' = Call("ConstantFlatSet::from_entries_unchecked", 0, 0, None, <<>>, entries)
    /\ UNCHANGED <<map, set, cmap>>
    /\ UNCHANGED lockstepVars

FromEntriesConstantFlatSet ==
    /\ live = "none"
    /\ \E N \in 0..MaxN : \E entries \in [1..N -> Keys] :
           LET res == ConstantFlatSet_from_entries(entries) IN
           /\ live' = IF res.ok THEN "ConstantFlatSet" ELSE "Err"
           /\ unchecked' = FALSE
           /\ cset' = res.inner
           /\ last' = Call("ConstantFlatSet::from_entries", 0, 0, res, <<>>, entries)
    /\ UNCHANGED <<map, set, cmap>>
    /\ UNCHANGED lockstepVars

Next ==
    \/ NewFlatMap
    \/ WithCapacityFlatMap
    \/ FromEntriesFlatMap
    \/ FromEntriesUncheckedFlatMap
    \/ FromFlatMap
    \/ GetFlatMap
    \/ InsertFlatMap
    \/ DeleteFlatMap
    \/ NewFlatSet
    \/ WithCapacityFlatSet
    \/ FromIterFlatSet
    \/ FromIterUncheckedFlatSet
    \/ FromFlatSet
    \/ HasFlatSet
    \/ InsertFlatSet
    \/ DeleteFlatSet
    \/ FromArrayConstantFlatMap
    \/ FromPairsConstantFlatMap
    \/ FromEntriesUncheckedConstantFlatMap
    \/ FromEntriesConstantFlatMap
    \/ FromEntriesUncheckedConstantFlatSet
    \/ FromEntriesConstantFlatSet

Spec == Init /\ [][Next]_vars

\* ---- mutable iteration: what a caller can do with one yielded item, a
\* `&mut FlatMapEntry<K, V>`: write the value through value_mut(), or assign
\* a whole entry built by the public FlatMapEntry::new (`*e = ...`)
ValueMutFlatMap ==
    /\ live = "FlatMap"
    /\ \E i \in FlatMap_iter_mut(map), v \in Values :
           /\ map' = [map EXCEPT ![i] = FlatMapEntry_value_mut(map[i], v)]
           /\ last' = Call("FlatMap::iter_mut value_mut", map[i].key, v, None, map, <<>>)
    /\ UNCHANGED <<live, unchecked, set, cmap, cset>>
    /\ UNCHANGED lockstepVars

AssignEntryFlatMap ==
    /\ live = "FlatMap"
    /\ \E i \in FlatMap_iter_mut(map), k \in Keys, v \in Values :
           /\ map' = [map EXCEPT ![i] = FlatMapEntry_new(k, v)]
           /\ last' = Call("FlatMap::iter_mut assign", k, v, None, map, <<>>)
    /\ UNCHANGED <<live, unchecked, set, cmap, cset>>
    /\ UNCHANGED lockstepVars

ValueMutConstantFlatMap ==
    /\ live = "ConstantFlatMap"
    /\ \E i \in ConstantFlatMap_iter_mut(cmap), v \in Values :
           /\ cmap' = [cmap EXCEPT ![i] = FlatMapEntry_value_mut(cmap[i], v)]
           /\ last' = Call("ConstantFlatMap::iter_mut value_mut", cmap[i].key, v,
                           None, cmap, <<>>)
    /\ UNCHANGED <<live, unchecked, map, set, cset>>
    /\ UNCHANGED lockstepVars

AssignEntryConstantFlatMap ==
    /\ live = "ConstantFlatMap"
    /\ \E i \in ConstantFlatMap_iter_mut(cmap), k \in Keys, v \in Values :
           /\ cmap' = [cmap EXCEPT ![i] = FlatMapEntry_new(k, v)]
           /\ last' = Call("ConstantFlatMap::iter_mut assign", k, v, None, cmap, <<>>)
    /\ UNCHANGED <<live, unchecked, map, set, cset>>
    /\ UNCHANGED lockstepVars

NextIterMut ==
    \/ Next
    \/ ValueMutFlatMap
    \/ AssignEntryFlatMap
    \/ ValueMutConstantFlatMap
    \/ AssignEntryConstantFlatMap

SpecIterMut == Init /\ [][NextIterMut]_vars

\* ---- lockstep run: a FlatMap and a FlatSet, both started empty by new(),
\* receive the same calls with the same keys, next to a reference partial
\* function from keys to values (insert = bind and return the old binding,
\* delete = unbind and return the old binding, get = lookup)
RefLookup(f, k) == IF k \in DOMAIN f THEN Some(f[k]) ELSE None

RefBind(f, k, v) == [x \in (DOMAIN f) \cup {k} |-> IF x = k THEN v ELSE f[x]]

RefUnbind(f, k) == [x \in (DOMAIN f) \ {k} |-> f[x]]

Rets(m, s, r) == [map |-> m, set |-> s, ref |-> r]

InitLockstep ==
    /\ live = "lockstep"
    /\ unchecked = FALSE
    /\ map = FlatMap_new
    /\ set = FlatSet_new
    /\ cmap = <<>>
    /\ cset = <<>>
    /\ last = Call("none", 0, 0, None, <<>>, <<>>)
    /\ ref = <<>>
    /\ firsts = <<>>
    /\ deleted = FALSE

LockstepInsert ==
    /\ live = "lockstep"
    /\ \E k \in Keys, v \in Values :
           /\ Len(map) < MaxLen \/ FlatMap_get(map, k) # None
           /\ map' = FlatMap_insert(map, k, v).inner
           /\ set' = FlatSet_insert(set, k).inner
           /\ ref' = RefBind(ref, k, v)
           /\ firsts' = IF deleted \/ (\E i \in 1..Len(firsts) : firsts[i] = k)
                         THEN firsts ELSE Append(firsts, k)
           /\ last' = Call("lockstep insert", k, v,
                           Rets(FlatMap_insert(map, k, v).ret,
                                FlatSet_insert(set, k).ret, RefLookup(ref, k)),
                           map, set)
    /\ UNCHANGED <<live, unchecked, cmap, cset, deleted>>

LockstepDelete ==
    /\ live = "lockstep"
    /\ \E k \in Keys :
           /\ map' = FlatMap_delete(map, k).inner
           /\ set' = FlatSet_delete(set, k).inner
           /\ ref' = RefUnbind(ref, k)
           /\ last' = Call("lockstep delete", k, 0,
                           Rets(FlatMap_delete(map, k).ret,
                                FlatSet_delete(set, k).ret, RefLookup(ref, k)),
                           map, set)
    /\ deleted' = TRUE
    /\ firsts' = <<>>
    /\ UNCHANGED <<live, unchecked, cmap, cset>>

LockstepGet ==
    /\ live = "lockstep"
    /\ \E k \in Keys :
           last' = Call("lockstep get", k, 0,
                        Rets(FlatMap_get(map, k), FlatSet_has(set, k),
                             RefLookup(ref, k)),
                        map, set)
    /\ UNCHANGED <<live, unchecked, map, set, cmap, cset, ref, firsts, deleted>>

NextLockstep ==
    \/ LockstepInsert
    \/ LockstepDelete
    \/ LockstepGet

SpecLockstep == InitLockstep /\ [][NextLockstep]_vars

TypeOK ==
    /\ unchecked \in BOOLEAN
    /\ live \in {"none", "Err", "FlatMap", "FlatSet", "ConstantFlatMap", "ConstantFlatSet"}
    /\ map \in SeqsUpTo(Entries, MaxLen)
    /\ set \in SeqsUpTo(Keys, MaxLen)
    /\ cmap \in SeqsUpTo(Entries, MaxN)
    /\ cset \in SeqsUpTo(Keys, MaxN)

\* ------------------------------------------------------------- properties
MapKeys(inner) == [i \in 1..Len(inner) |-> inner[i].key]

Distinct(keys) == \A i, j \in 1..Len(keys) : i # j => keys[i] # keys[j]

Occurrences(keys, k) == {i \in 1..Len(keys) : keys[i] = k}

FirstIndex(keys, k) ==
    CHOOSE i \in Occurrences(keys, k) : \A h \in Occurrences(keys, k) : i <= h

LastIndex(keys, k) ==
    CHOOSE i \in Occurrences(keys, k) : \A h \in Occurrences(keys, k) : h <= i

\* the keys and values of a constructor's input, entries or plain pairs
InputKeys(input, isPairs) ==
    [i \in 1..Len(input) |-> IF isPairs THEN input[i][1] ELSE input[i].key]

InputValues(input, isPairs) ==
    [i \in 1..Len(input) |-> IF isPairs THEN input[i][2] ELSE input[i].value]

\* C1: a FlatMap / FlatSet built by new, with_capacity, from_entries /
\* from_iter or From, after any sequence of insert and delete calls, never
\* stores two entries (elements) with equal keys.
C1_KeyUniqueness ==
    /\ (live = "FlatMap" /\ ~unchecked)
           => Distinct(MapKeys(map))
    /\ (live = "FlatSet" /\ ~unchecked)
           => Distinct(set)

C1_Witness ==
    /\ live = "FlatMap"
    /\ ~unchecked
    /\ last.op = "FlatMap::insert"
    /\ last.ret # None
    /\ Len(map) >= 2

\* C2: FlatMap::from_entries and From over plain pairs build a map in which
\* get(k) is the value of the last occurrence of k in the input (None when k
\* does not occur) and the number of entries is the number of distinct
\* input keys.
C2_LastWriteWins ==
    last.op \in {"FlatMap::from_entries", "FlatMap::from"} =>
        LET isPairs == last.op = "FlatMap::from"
            keys == InputKeys(last.input, isPairs)
            vals == InputValues(last.input, isPairs)
        IN /\ \A k \in Keys :
                  FlatMap_get(map, k) =
                      IF Occurrences(keys, k) = {} THEN None
                      ELSE Some(vals[LastIndex(keys, k)])
           /\ Len(map) = Cardinality({keys[i] : i \in 1..Len(keys)})

C2_Witness ==
    /\ last.op = "FlatMap::from_entries"
    /\ \E i, j \in 1..Len(last.input) :
           /\ i < j
           /\ last.input[i].key = last.input[j].key
           /\ last.input[i].value # last.input[j].value
    /\ Len(map) >= 2

\* C3 as stated: after delete(k) returned a value (true for the set), get(k)
\* is None (has(k) is false), for every container however it was built.
C3_DeleteThenAbsent_Original ==
    /\ (last.op = "FlatMap::delete" /\ last.ret # None)
           => FlatMap_get(map, last.k) = None
    /\ (last.op = "FlatSet::delete" /\ last.ret = TRUE)
           => ~FlatSet_has(set, last.k)

\* C3 amended: after delete(k) returned a value (true), get(k) is None
\* (has(k) is false) exactly when k was stored once before the call; a
\* container built unchecked from duplicate keys still answers for k.
C3_DeleteThenAbsent ==
    /\ (last.op = "FlatMap::delete" /\ last.ret # None)
           => (FlatMap_get(map, last.k) = None
                   <=> Cardinality(Occurrences(MapKeys(last.pre), last.k)) = 1)
    /\ (last.op = "FlatSet::delete" /\ last.ret = TRUE)
           => (~FlatSet_has(set, last.k)
                   <=> Cardinality(Occurrences(last.pre, last.k)) = 1)

C3_Witness ==
    /\ last.op = "FlatMap::delete"
    /\ last.ret # None
    /\ unchecked
    /\ Len(last.pre) = 3
    /\ last.pre[1].key = last.k
    /\ FlatMap_get(map, last.k) = None

\* C4 as stated: a ConstantFlatMap / ConstantFlatSet built by any path other
\* than from_entries_unchecked has pairwise distinct keys.
C4_ConstantUniqueness ==
    /\ (live = "ConstantFlatMap" /\ ~unchecked)
           => Distinct(MapKeys(cmap))
    /\ (live = "ConstantFlatSet" /\ ~unchecked)
           => Distinct(cset)

\* the lexicographically smallest colliding pair of Rust indices
Collisions(keys) ==
    {c \in (0..(Len(keys) - 1)) \X (0..(Len(keys) - 1)) :
        c[1] < c[2] /\ keys[c[1] + 1] = keys[c[2] + 1]}

FirstCollision(keys) ==
    CHOOSE c \in Collisions(keys) :
        \A d \in Collisions(keys) :
            c[1] < d[1] \/ (c[1] = d[1] /\ c[2] <= d[2])

\* C5: ConstantFlatMap::from_entries / ConstantFlatSet::from_entries return
\* Err((i, j)) exactly when two positions hold equal keys, (i, j) being the
\* lexicographically smallest colliding pair; otherwise Ok of a container
\* whose iteration yields the inputs in their original order.
C5_CheckedConstruction ==
    /\ last.op = "ConstantFlatMap::from_entries" =>
           LET keys == MapKeys(last.input) IN
           IF Collisions(keys) = {}
           THEN /\ last.ret.ok
                /\ live = "ConstantFlatMap"
                /\ ConstantFlatMap_iter(cmap) = last.input
           ELSE /\ ~last.ret.ok
                /\ live = "Err"
                /\ last.ret.err = FirstCollision(keys)
    /\ last.op = "ConstantFlatSet::from_entries" =>
           IF Collisions(last.input) = {}
           THEN /\ last.ret.ok
                /\ live = "ConstantFlatSet"
                /\ ConstantFlatSet_iter(cset) = last.input
           ELSE /\ ~last.ret.ok
                /\ live = "Err"
                /\ last.ret.err = FirstCollision(last.input)

C5_Witness ==
    /\ last.op = "ConstantFlatMap::from_entries"
    /\ ~last.ret.ok
    /\ last.ret.err = <<0, 2>>

\* C6: delete(k) finding k at position p of n returns the value at p (true),
\* leaves n - 1 elements, puts the former last element at p (if p is not
\* the last position) and keeps every other element where it was.
SwapRemoved(pre, post, p) ==
    /\ Len(post) = Len(pre) - 1
    /\ p # Len(pre) => post[p] = pre[Len(pre)]
    /\ \A j \in 1..(Len(pre) - 1) : j # p => post[j] = pre[j]

C6_SwapRemoveOnDelete ==
    /\ (last.op = "FlatMap::delete" /\ Occurrences(MapKeys(last.pre), last.k) # {})
           => LET p == FirstIndex(MapKeys(last.pre), last.k) IN
              /\ last.ret = Some(last.pre[p].value)
              /\ SwapRemoved(last.pre, map, p)
    /\ (last.op = "FlatSet::delete" /\ Occurrences(last.pre, last.k) # {})
           => LET p == FirstIndex(last.pre, last.k) IN
              /\ last.ret = TRUE
              /\ SwapRemoved(last.pre, set, p)

C6_Witness ==
    /\ last.op = "FlatMap::delete"
    /\ ~unchecked
    /\ Len(last.pre) = 3
    /\ last.pre[1].key = last.k
    /\ map = <<last.pre[3], last.pre[2]>>

\* C7: insert(k, v) on a map holding k returns the stored value of k, keeps
\* the number of entries and the sequence of keys, makes v the value of k
\* and changes no other entry.
C7_OverwriteByInsert ==
    (last.op = "FlatMap::insert" /\ Occurrences(MapKeys(last.pre), last.k) # {})
        => LET p == FirstIndex(MapKeys(last.pre), last.k) IN
           /\ last.ret = Some(last.pre[p].value)
           /\ Len(map) = Len(last.pre)
           /\ MapKeys(map) = MapKeys(last.pre)
           /\ FlatMap_get(map, last.k) = Some(last.v)
           /\ \A i \in 1..Len(last.pre) : i # p => map[i] = last.pre[i]

C7_Witness ==
    /\ last.op = "FlatMap::insert"
    /\ Len(last.pre) >= 2
    /\ last.pre[1].key = last.k
    /\ last.pre[1].value # last.v
    /\ last.ret = Some(last.pre[1].value)

\* C8: insert(k, v) on a map not holding k returns None, adds exactly one
\* entry, makes get(k) return v and leaves get(k') of every other key as it
\* was.
C8_InsertNewKey ==
    (last.op = "FlatMap::insert" /\ Occurrences(MapKeys(last.pre), last.k) = {})
        => /\ last.ret = None
           /\ Len(map) = Len(last.pre) + 1
           /\ FlatMap_get(map, last.k) = Some(last.v)
           /\ \A k2 \in Keys \ {last.k} :
                  FlatMap_get(map, k2) = FlatMap_get(last.pre, k2)

C8_Witness ==
    /\ last.op = "FlatMap::insert"
    /\ last.ret = None
    /\ Len(last.pre) >= 1
    /\ Len(map) = Len(last.pre) + 1

\* C9: FlatSet::insert(k) returns true exactly when k was already stored and
\* then leaves the sequence unchanged; it returns false exactly when k was
\* absent and then appends k at the end, after which has(k) is true.
C9_SetInsertPolarity ==
    last.op = "FlatSet::insert" =>
        LET present == Occurrences(last.pre, last.k) # {} IN
        /\ last.ret = present
        /\ present => set = last.pre
        /\ ~present => (set = Append(last.pre, last.k) /\ FlatSet_has(set, last.k))

C9_Witness ==
    /\ last.op = "FlatSet::insert"
    /\ last.ret = TRUE
    /\ Len(set) >= 2

\* the input with every repeated occurrence after the first removed
FirstOccurrenceIndices(input) ==
    {i \in 1..Len(input) : \A h \in 1..(i - 1) : input[h] # input[i]}

Nth(indices, m) ==
    CHOOSE i \in indices : Cardinality({h \in indices : h <= i}) = m

Dedup(input) ==
    [m \in 1..Cardinality(FirstOccurrenceIndices(input)) |->
        input[Nth(FirstOccurrenceIndices(input), m)]]

\* C10: FlatSet::from_iter and From store exactly the input with every
\* repeated occurrence after the first removed, in first-occurrence order.
C10_FromIterFirstOccurrence ==
    last.op \in {"FlatSet::from_iter", "FlatSet::from"} => set = Dedup(last.input)

C10_Witness ==
    /\ last.op = "FlatSet::from_iter"
    /\ Len(last.input) = 3
    /\ last.input[1] = last.input[3]
    /\ last.input[1] # last.input[2]
    /\ Len(set) = 2

\* slot i of a vector repeats the key of an earlier slot: lookups never
\* reach it
NonFirst(inner, i) == \E h \in 1..(i - 1) : inner[h].key = inner[i].key

\* the slot in which the entry of slot i is stored after swap_remove(p)
SlotAfterRemove(inner, p, i) == IF i = Len(inner) THEN p ELSE i

C12_KeysImmutableThroughIterMut ==
    /\ last.op \in {"FlatMap::iter_mut value_mut", "FlatMap::iter_mut assign"}
           => MapKeys(map) = MapKeys(last.pre)
    /\ last.op \in {"ConstantFlatMap::iter_mut value_mut",
                    "ConstantFlatMap::iter_mut assign"}
           => MapKeys(cmap) = MapKeys(last.pre)

\* C13: on a FlatMap / FlatSet started empty on which only insert was
\* called, iteration yields the distinct keys in the order of their first
\* insertion; re-inserting a stored key never moves it.
C13_InsertionOrder ==
    (live = "lockstep" /\ ~deleted)
        => /\ MapKeys(FlatMap_iter(map)) = firsts
           /\ FlatSet_iter(set) = firsts

C13_Witness ==
    /\ live = "lockstep"
    /\ ~deleted
    /\ last.op = "lockstep insert"
    /\ last.ret.map # None
    /\ last.ret.set = TRUE
    /\ Len(firsts) = 3
    /\ firsts[1] = last.k

\* C14: delete(k) with no stored key equal to k returns None (false for the
\* set) and leaves the stored sequence unchanged, also on an empty
\* container.
C14_AbsentDeleteNoOp ==
    /\ (last.op = "FlatMap::delete" /\ Occurrences(MapKeys(last.pre), last.k) = {})
           => (last.ret = None /\ map = last.pre)
    /\ (last.op = "FlatSet::delete" /\ Occurrences(last.pre, last.k) = {})
           => (last.ret = FALSE /\ set = last.pre)

C14_Witness ==
    /\ last.op = "FlatMap::delete"
    /\ Len(last.pre) >= 2
    /\ Occurrences(MapKeys(last.pre), last.k) = {}
    /\ last.ret = None

\* C15: on a FlatMap started empty, every insert, delete and get returns what
\* the reference partial function returns, and after every step the number
\* of stored entries is the size of the reference function's domain.
C15_RefinesAbstractMap ==
    live = "lockstep"
        => /\ last.op \in {"lockstep insert", "lockstep delete", "lockstep get"}
                  => last.ret.map = last.ret.ref
           /\ Len(map) = Cardinality(DOMAIN ref)

C15_Witness ==
    /\ live = "lockstep"
    /\ last.op = "lockstep get"
    /\ deleted
    /\ last.ret.ref # None
    /\ Cardinality(DOMAIN ref) = 2
    /\ map[1].key > map[2].key

\* C16: a FlatSet and a FlatMap given the same insert and delete calls, both
\* started empty, store equal key sequences after every step; the set's
\* insert / delete returns true exactly when the map's returns a value, and
\* has(k) is true exactly when get(k) is not None.
C16_SetIsMapWithoutValues ==
    live = "lockstep"
        => /\ set = MapKeys(map)
           /\ last.op \in {"lockstep insert", "lockstep delete"}
                  => (last.ret.set = TRUE <=> last.ret.map # None)
           /\ \A k \in Keys : FlatSet_has(set, k) <=> FlatMap_get(map, k) # None

C16_Witness ==
    /\ live = "lockstep"
    /\ last.op = "lockstep delete"
    /\ last.ret.set = TRUE
    /\ Len(last.pre) = 3
    /\ last.pre[1].key = last.k
    /\ set = <<last.input[3], last.input[2]>>

====
